---- MODULE Spec2Model ----
(***************************************************************************)
(* DataValidator (src/src/data_pipeline/validation.py) called by a small   *)
(* set of caller threads.  One validator object is shared; its counters    *)
(* live in the dict self.validation_stats, which reset_statistics()        *)
(* replaces by a fresh dict.  Every `x[k] += 1` is a load of the dict and  *)
(* of the item followed by a store of the item, as CPython executes it.    *)
(***************************************************************************)
EXTENDS Integers, Sequences, FiniteSets, TLC

VARIABLES
    strict_mode,        \* self.strict_mode
    heap,               \* every counters dict created so far, by identity
    validation_stats,   \* self.validation_stats: identity of the current dict
    log,                \* the audit log: messages handed to self.logger
    pc,                 \* per caller: the line it is about to execute
    data,               \* per caller: the record object passed to the call
    schema,             \* the schema the callers pass to every validate_schema call
    ref,                \* per caller: the dict loaded by the pending +=
    tmp,                \* per caller: the item value loaded by the pending +=
    returned,           \* calls that have returned, with what they returned
    started,            \* number of calls begun (bounded by MaxCalls)
    since,              \* validate_schema calls begun since construction / reset
    raced,              \* a reset ran while a validate_schema call was in flight
    sink,               \* the audit log file: "up" (writable) or "down" (writes fail)
    snapshot,           \* what a caller of get_validation_statistics() holds
    ingester            \* a CSVIngester (src/src/data_pipeline/ingestion.py)

vars == <<strict_mode, heap, validation_stats, log, pc, data, schema, ref, tmp,
          returned, started, since, raced, sink, snapshot, ingester>>

\* What the DataValidator's methods of the first part leave alone.
rest == <<sink, snapshot, ingester>>

\* ------------------------------------------------------------------ bounds
MaxCalls == 3

MaxIngests == 3

Threads == {"t1", "t2"}

\* ------------------------------------------------------------------ values
IntVal(r) == [type |-> "int", repr |-> r]
StrVal(r) == [type |-> "str", repr |-> r]

NoRecord == [none |-> StrVal("")]

\* Records the callers pass: patient_id is always there, age is absent, an int
\* or a string, ssn is absent or present.
Records ==
    { [patient_id |-> StrVal("P1"), age |-> IntVal("45")],
      [patient_id |-> StrVal("P1")],
      [patient_id |-> StrVal("P1"), age |-> StrVal("forty-five")],
      [patient_id |-> StrVal("P1"), age |-> IntVal("45"), ssn |-> StrVal("123-45-6789")] }

\* Schemas in the format of the validate_schema docstring:
\* {'field_name': {'type': ..., 'required': bool}}
FieldSpec(t, r) == [type |-> t, required |-> r]

Schemas ==
    { [patient_id |-> FieldSpec("str", TRUE), age |-> FieldSpec("int", TRUE)],
      [patient_id |-> FieldSpec("str", TRUE), age |-> FieldSpec("int", FALSE)] }

\* ------------------------------------------------------------------ state
ZeroStats == [total_validations |-> 0, passed |-> 0, failed |-> 0, warnings |-> 0]

Keys == {"total_validations", "passed", "failed", "warnings"}

\* The counters a reader of self.validation_stats sees.
Stats == heap[validation_stats]

\* A schema that declares no field.
EmptySchema == [f \in {} |-> FieldSpec("", FALSE)]

\* A caller holding no snapshot of the statistics.
NoSnapshot == [ref |-> 0, value |-> ZeroStats, mutated |-> FALSE]

\* CSVIngester.__init__: the metadata of DataIngester.__init__; initialized_at
\* is the clock, which the model starts at 0.
NewIngester ==
    [pc |-> "idle",
     metadata |-> [source_path |-> "patients.csv", source_type |-> "csv",
                   ingester_class |-> "CSVIngester", initialized_at |-> 0],
     before |-> [source_path |-> "patients.csv", source_type |-> "csv",
                 ingester_class |-> "CSVIngester", initialized_at |-> 0],
     audit |-> <<>>, mark |-> 0, calls |-> 0, rows |-> 0, exc |-> "none",
     outcome |-> "none", successes |-> 0]

\* The state after DataValidator(config) with the callers' schema among
\* `schemas` and the audit log file in one of the states `sinks`: __init__ looks
\* at neither.
Constructed(schemas, sinks) ==
    /\ strict_mode \in BOOLEAN
    /\ heap = <<ZeroStats>>
    /\ validation_stats = 1
    /\ sink \in sinks
    /\ log = IF sink = "up" THEN <<[event |-> "DataValidator initialized"]>> ELSE <<>>
    /\ pc = [t \in Threads |-> "idle"]
    /\ data = [t \in Threads |-> NoRecord]
    /\ schema \in schemas
    /\ ref = [t \in Threads |-> 0]
    /\ tmp = [t \in Threads |-> 0]
    /\ returned = {}
    /\ started = 0
    /\ since = 0
    /\ raced = FALSE
    /\ snapshot = NoSnapshot
    /\ ingester = NewIngester

Init == Constructed(Schemas, {"up"})

\* ------------------------------------------------------------ audit log
\* Variant: a failed write of the log file propagates to the caller.
logger_info_raises_on_failure(s) == s = "down"

\* Whether self.logger.info() raises: the handler that logging.basicConfig
\* installs catches a failed write (Handler.handleError) and returns.
logger_info_raises(s) == FALSE

\* The audit log after self.logger.info(ev): the message is lost when the file
\* cannot be written.
logger_info(l, s, ev) == IF s = "up" THEN Append(l, ev) ELSE l

InValidateSchema(t) == pc[t] \in {"vs148", "vs148s", "vs149", "vs149s"}

\* ------------------------------------------------------- validate_schema
\* Variant: the verdict is taken from the validator's running statistics.
validate_schema_return_stateful(stats, d, s) == <<stats.total_validations <= 1, <<>>>>

\* Variant: the verdict is inverted (len(errors) > 0 returned as the verdict).
validate_schema_return_inverted(stats, d, s) == <<FALSE, <<>>>>

\* Variant: a type error is appended to errors and True is still returned.
validate_schema_return_flagging(stats, d, s) ==
    <<TRUE, IF "age" \in DOMAIN d /\ d["age"].type = "str"
               THEN <<[field |-> "age"]>> ELSE <<>>>>

\* What validate_schema returns: errors is the empty list it starts with and
\* the first component is the literal True.
validate_schema_return(stats, d, s) == <<TRUE, <<>>>>

validate_schema_144(t) ==
    /\ pc[t] = "idle"
    /\ started < MaxCalls
    /\ \E d \in Records :
          IF logger_info_raises(sink)
             THEN /\ returned' = returned \cup
                        { [op |-> "validate_schema", n |-> Cardinality(returned),
                           data |-> d, after |-> d, raised |-> "OSError",
                           result |-> <<>>] }
                  /\ UNCHANGED <<data, log, pc>>
             ELSE /\ data' = [data EXCEPT ![t] = d]
                  /\ log' = logger_info(log, sink, [event |-> "Schema validation requested"])
                  /\ pc' = [pc EXCEPT ![t] = "vs148"]
                  /\ UNCHANGED returned
    /\ started' = started + 1
    /\ since' = since + 1
    /\ UNCHANGED <<strict_mode, heap, validation_stats, schema, ref, tmp, raced>>
    /\ UNCHANGED rest

validate_schema_148_load(t) ==
    /\ pc[t] = "vs148"
    /\ ref' = [ref EXCEPT ![t] = validation_stats]
    /\ tmp' = [tmp EXCEPT ![t] = heap[validation_stats].total_validations]
    /\ pc' = [pc EXCEPT ![t] = "vs148s"]
    /\ UNCHANGED <<strict_mode, heap, validation_stats, log, data, schema,
                   returned, started, since, raced>>
    /\ UNCHANGED rest

validate_schema_148_store(t) ==
    /\ pc[t] = "vs148s"
    /\ heap' = [heap EXCEPT ![ref[t]].total_validations = tmp[t] + 1]
    /\ pc' = [pc EXCEPT ![t] = "vs149"]
    /\ UNCHANGED <<strict_mode, validation_stats, log, data, schema, ref, tmp,
                   returned, started, since, raced>>
    /\ UNCHANGED rest

validate_schema_149_load(t) ==
    /\ pc[t] = "vs149"
    /\ ref' = [ref EXCEPT ![t] = validation_stats]
    /\ tmp' = [tmp EXCEPT ![t] = heap[validation_stats].passed]
    /\ pc' = [pc EXCEPT ![t] = "vs149s"]
    /\ UNCHANGED <<strict_mode, heap, validation_stats, log, data, schema,
                   returned, started, since, raced>>
    /\ UNCHANGED rest

\* The store of line 149 and the return of line 151, which touches no shared
\* state: it builds the tuple from the list `errors` the call started with.
validate_schema_149_store(t) ==
    /\ pc[t] = "vs149s"
    /\ heap' = [heap EXCEPT ![ref[t]].passed = tmp[t] + 1]
    /\ returned' = returned \cup
          { [op |-> "validate_schema", n |-> Cardinality(returned),
             data |-> data[t], after |-> data[t], raised |-> "none",
             result |-> validate_schema_return(heap'[validation_stats], data[t], schema)] }
    /\ pc' = [pc EXCEPT ![t] = "idle"]
    /\ data' = [data EXCEPT ![t] = NoRecord]
    /\ ref' = [ref EXCEPT ![t] = 0]
    /\ tmp' = [tmp EXCEPT ![t] = 0]
    /\ UNCHANGED <<strict_mode, validation_stats, log, schema, started, since, raced>>
    /\ UNCHANGED rest

\* ------------------------------------------------------------ detect_phi
\* detected_fields after lines 195-209: nothing is ever appended to it.
detected_fields(d) == <<>>

\* Variant: detect_phi redacts the identifier field in place.
detect_phi_data_redacting(d) == [f \in DOMAIN d \ {"ssn"} |-> d[f]]

\* The record after detect_phi has run: the body only takes len(data).
detect_phi_data(d) == d

\* The exception detect_phi raises: its body has no raise statement.
detect_phi_raises(d) == "none"

detect_phi_return(d) == <<Len(detected_fields(d)) > 0, detected_fields(d)>>

detect_phi_206(t) ==
    /\ pc[t] = "idle"
    /\ started < MaxCalls
    /\ \E d \in Records :
          /\ data' = [data EXCEPT ![t] = d]
          /\ log' = logger_info(log, sink, [event |-> "PHI detection scan initiated"])
    /\ pc' = [pc EXCEPT ![t] = "phi211"]
    /\ started' = started + 1
    /\ UNCHANGED <<strict_mode, heap, validation_stats, schema, ref, tmp,
                   returned, since, raced>>
    /\ UNCHANGED rest

detect_phi_211(t) ==
    /\ pc[t] = "phi211"
    /\ LET phi_detected == detect_phi_return(data[t])[1]
           after == detect_phi_data(data[t])
       IN  /\ IF phi_detected
                 THEN /\ log' = logger_info(log, sink, [event |-> "PHI detected in fields"])
                      /\ heap' = [heap EXCEPT ![validation_stats].warnings = @ + 1]
                 ELSE UNCHANGED <<log, heap>>
           /\ returned' = returned \cup
                 { [op |-> "detect_phi", n |-> Cardinality(returned),
                    data |-> data[t], after |-> after,
                    raised |-> detect_phi_raises(data[t]),
                    result |-> detect_phi_return(data[t])] }
    /\ pc' = [pc EXCEPT ![t] = "idle"]
    /\ data' = [data EXCEPT ![t] = NoRecord]
    /\ UNCHANGED <<strict_mode, validation_stats, schema, ref, tmp, started, since, raced>>
    /\ UNCHANGED rest

\* ------------------------------------------------------ reset_statistics
reset_statistics_271(t) ==
    /\ pc[t] = "idle"
    /\ started < MaxCalls
    /\ heap' = Append(heap, ZeroStats)
    /\ validation_stats' = Len(heap) + 1
    /\ pc' = [pc EXCEPT ![t] = "reset277"]
    /\ started' = started + 1
    /\ since' = 0
    /\ raced' = (raced \/ \E u \in Threads : InValidateSchema(u))
    /\ UNCHANGED <<strict_mode, log, data, schema, ref, tmp, returned>>
    /\ UNCHANGED rest

reset_statistics_277(t) ==
    /\ pc[t] = "reset277"
    /\ log' = logger_info(log, sink, [event |-> "Validation statistics reset"])
    /\ pc' = [pc EXCEPT ![t] = "idle"]
    /\ UNCHANGED <<strict_mode, heap, validation_stats, data, schema, ref, tmp,
                   returned, started, since, raced>>
    /\ UNCHANGED rest

\* ------------------------------------------------------------------ spec
Next ==
    \E t \in Threads :
        \/ validate_schema_144(t)
        \/ validate_schema_148_load(t)
        \/ validate_schema_148_store(t)
        \/ validate_schema_149_load(t)
        \/ validate_schema_149_store(t)
        \/ detect_phi_206(t)
        \/ detect_phi_211(t)
        \/ reset_statistics_271(t)
        \/ reset_statistics_277(t)

Spec == Init /\ [][Next]_vars

\* The validator of a caller whose schema declares no field.
InitEmptySchema == Constructed({EmptySchema}, {"up"})

SpecEmptySchema == InitEmptySchema /\ [][Next]_vars

\* The validator whose audit log file cannot be written.
InitSinkDown == Constructed(Schemas, {"down"})

SpecSinkDown == InitSinkDown /\ [][Next]_vars

\* ---------------------------------------------- get_validation_statistics
\* Variant: the validator's own dict is returned.
get_validation_statistics_return_self(h, vs) == vs

\* The identity of the dict get_validation_statistics returns: .copy() makes
\* a new dict, the next one on the heap.
get_validation_statistics_return(h, vs) == Len(h) + 1

\* dict.copy() is one call into the interpreter: one step.  snapshot.value is
\* what the caller has seen or written in the mapping it holds.
get_validation_statistics(t) ==
    /\ pc[t] = "idle"
    /\ started < MaxCalls
    /\ LET r == get_validation_statistics_return(heap, validation_stats)
       IN  /\ heap' = IF r = Len(heap) + 1 THEN Append(heap, heap[validation_stats])
                                           ELSE heap
           /\ snapshot' = [ref |-> r, value |-> heap[validation_stats], mutated |-> FALSE]
    /\ started' = started + 1
    /\ UNCHANGED <<strict_mode, validation_stats, log, pc, data, schema, ref, tmp,
                   returned, since, raced, sink, ingester>>

\* The caller writes into the mapping it was given.
caller_modifies_snapshot(t) ==
    /\ pc[t] = "idle"
    /\ snapshot.ref # 0
    /\ ~snapshot.mutated
    /\ heap' = [heap EXCEPT ![snapshot.ref].total_validations = -1]
    /\ snapshot' = [snapshot EXCEPT !.value.total_validations = -1, !.mutated = TRUE]
    /\ UNCHANGED <<strict_mode, validation_stats, log, pc, data, schema, ref, tmp,
                   returned, started, since, raced, sink, ingester>>

\* Callers validate and reset while a caller takes a snapshot of the
\* statistics and writes into it.
NextSnapshot ==
    \E t \in Threads :
        \/ validate_schema_144(t)
        \/ validate_schema_148_load(t)
        \/ validate_schema_148_store(t)
        \/ validate_schema_149_load(t)
        \/ validate_schema_149_store(t)
        \/ reset_statistics_271(t)
        \/ reset_statistics_277(t)
        \/ get_validation_statistics(t)
        \/ caller_modifies_snapshot(t)

SpecSnapshot == Init /\ [][NextSnapshot]_vars

\* ------------------------------------------------- CSVIngester.ingest
\* The validator, which an ingester never touches.
validator == <<strict_mode, heap, validation_stats, log, pc, data, schema, ref, tmp,
               returned, started, since, raced, sink, snapshot>>

\* len(df) of the files read.
RowCounts == {1, 2}

\* What os.path.getsize gives: a size, or OSError when the file has gone.
Sizes == {"64", "OSError"}

\* DataIngester._log_audit_event: one more entry in the audit trail.
_log_audit_event(audit, event_type) == Append(audit, event_type)

\* Variant: the metadata keys are assigned one by one, the size last.
metadata_update_keywise(md, rows, now, size) ==
    IF size = "OSError"
       THEN [rows_ingested |-> rows, columns |-> <<"patient_id", "age">>,
             ingestion_timestamp |-> now] @@ md
       ELSE [rows_ingested |-> rows, columns |-> <<"patient_id", "age">>,
             ingestion_timestamp |-> now, file_size_bytes |-> size] @@ md

\* self._metadata.update({...}) of lines 227-232: the dict literal is built
\* first, so a failing os.path.getsize leaves the metadata as it was.
metadata_update(md, rows, now, size) ==
    IF size = "OSError"
       THEN md
       ELSE [rows_ingested |-> rows, columns |-> <<"patient_id", "age">>,
             ingestion_timestamp |-> now, file_size_bytes |-> size] @@ md

ingest_207 ==
    /\ ingester.pc = "idle"
    /\ ingester.calls < MaxIngests
    /\ ingester' = [ingester EXCEPT
          !.pc = "i214", !.calls = @ + 1, !.before = ingester.metadata,
          !.mark = Len(ingester.audit), !.rows = 0, !.exc = "none",
          !.outcome = "running",
          !.audit = _log_audit_event(@, "ingestion_start")]
    /\ UNCHANGED validator

\* os.path.exists is false: the error is logged and FileNotFoundError raised
\* inside the try block, so the handler of line 243 runs next.
ingest_214_missing ==
    /\ ingester.pc = "i214"
    /\ ingester' = [ingester EXCEPT
          !.pc = "i243", !.exc = "FileNotFoundError",
          !.audit = _log_audit_event(@, "ingestion_error")]
    /\ UNCHANGED validator

ingest_214_exists ==
    /\ ingester.pc = "i214"
    /\ ingester' = [ingester EXCEPT !.pc = "i224"]
    /\ UNCHANGED validator

ingest_224_read ==
    /\ ingester.pc = "i224"
    /\ \E rows \in RowCounts :
          ingester' = [ingester EXCEPT !.pc = "i227", !.rows = rows]
    /\ UNCHANGED validator

ingest_224_raises ==
    /\ ingester.pc = "i224"
    /\ ingester' = [ingester EXCEPT !.pc = "i243", !.exc = "ParserError"]
    /\ UNCHANGED validator

ingest_227 ==
    /\ ingester.pc = "i227"
    /\ \E size \in Sizes :
          ingester' = [ingester EXCEPT
             !.metadata = metadata_update(@, ingester.rows, ingester.calls, size),
             !.pc = IF size = "OSError" THEN "i243" ELSE "i235",
             !.exc = IF size = "OSError" THEN "OSError" ELSE "none"]
    /\ UNCHANGED validator

ingest_235 ==
    /\ ingester.pc = "i235"
    /\ ingester' = [ingester EXCEPT
          !.pc = "idle", !.outcome = "returned", !.successes = @ + 1,
          !.audit = _log_audit_event(@, "ingestion_complete")]
    /\ UNCHANGED validator

ingest_243 ==
    /\ ingester.pc = "i243"
    /\ ingester' = [ingester EXCEPT
          !.pc = "idle", !.outcome = ingester.exc,
          !.audit = _log_audit_event(@, "ingestion_error")]
    /\ UNCHANGED validator

NextIngest ==
    \/ ingest_207
    \/ ingest_214_missing
    \/ ingest_214_exists
    \/ ingest_224_read
    \/ ingest_224_raises
    \/ ingest_227
    \/ ingest_235
    \/ ingest_243

SpecIngest == Init /\ [][NextIngest]_vars

\* ----------------------------------------------------------- vocabulary
is_valid(e) == e.result[1]

errors(e) == e.result[2]

ValidateReturns == {e \in returned : e.op = "validate_schema"}

PhiReturns == {e \in returned : e.op = "detect_phi"}

AllIdle == \A t \in Threads : pc[t] = "idle"

CountEvents(names) == Cardinality({i \in DOMAIN log : log[i].event \in names})

\* Field names the design flags as PHI whatever their content.
phi_deny_list == {"ssn", "social_security", "patient_name", "mrn", "address", "phone", "email"}

PhiFindings(d) == DOMAIN d \cap phi_deny_list

MissingRequired(d, s) == {f \in DOMAIN s : s[f].required /\ f \notin DOMAIN d}

StringForInteger(d, s) ==
    {f \in DOMAIN s \cap DOMAIN d : s[f].type = "int" /\ d[f].type = "str"}

Conforms(d, s) ==
    \A f \in DOMAIN s :
        /\ s[f].required => f \in DOMAIN d
        /\ f \in DOMAIN d => d[f].type = s[f].type

\* An error message names field f.
Names(msg, f) == msg.field = f

\* ------------------------------------------------------------------ C1
\* C1: when no call is in flight, total_validations and passed + failed both
\* equal the number of validate calls made since construction or since the
\* last reset, however the calls interleaved.
C1_StatisticsConservation ==
    (AllIdle /\ ~raced) =>
        /\ Stats.total_validations = since
        /\ Stats.passed + Stats.failed = since

\* ------------------------------------------------------------------ C2
\* C2: with a single validate call and resets racing with it, passed + failed
\* never exceeds total_validations, and they are equal once nothing is in flight.
C2_ResetConsistency ==
    CountEvents({"Schema validation requested"}) <= 1 =>
        /\ Stats.passed + Stats.failed <= Stats.total_validations
        /\ AllIdle => Stats.passed + Stats.failed = Stats.total_validations

\* ------------------------------------------------------------------ C3
\* C3: a call on a record that lacks a field the schema requires returns
\* is_valid = false and an error message naming that field.
C3_RequiredFieldCompleteness ==
    \A e \in ValidateReturns :
        \A f \in MissingRequired(e.data, schema) :
            /\ ~is_valid(e)
            /\ \E i \in DOMAIN errors(e) : Names(errors(e)[i], f)

\* ------------------------------------------------------------------ C4
\* C4: a call on a record holding a string in a field typed Integer returns
\* is_valid = false and an error message naming that field.
C4_TypeStrictness ==
    \A e \in ValidateReturns :
        \A f \in StringForInteger(e.data, schema) :
            /\ ~is_valid(e)
            /\ \E i \in DOMAIN errors(e) : Names(errors(e)[i], f)

\* ------------------------------------------------------------------ C5
\* C5: is_valid is true exactly when there are no schema errors and, under
\* strict_mode, no PHI findings for the record.
C5_AggregationRule ==
    \A e \in ValidateReturns :
        is_valid(e) <=>
            (errors(e) = <<>> /\ (~strict_mode \/ PhiFindings(e.data) = {}))

\* ------------------------------------------------------------------ C6
\* C6: two calls of the same operation on the same record return the same
\* result, whatever calls were made in between.
C6_Determinism ==
    \A a, b \in returned :
        (a.op = b.op /\ a.data = b.data) => a.result = b.result

C6_Witness ==
    \E a, b, c \in ValidateReturns :
        /\ a.n < c.n /\ c.n < b.n
        /\ a.data = b.data /\ c.data # a.data
        /\ a.result = b.result

\* ------------------------------------------------------------------ C7
\* C7: a record with every required field present, every value of the declared
\* type and no PHI field is returned valid with no errors.
C7_ValidRecordPasses ==
    \A e \in ValidateReturns :
        (Conforms(e.data, schema) /\ PhiFindings(e.data) = {}) =>
            (is_valid(e) /\ errors(e) = <<>>)

C7_Witness ==
    \E e \in ValidateReturns :
        /\ Conforms(e.data, schema) /\ PhiFindings(e.data) = {}
        /\ "age" \in DOMAIN e.data
        /\ is_valid(e)

\* ------------------------------------------------------------------ C8
\* C8: every validate call that has returned has left a completion or failure
\* event in the audit log, besides its start event.
C8_EmitBeforeReturn ==
    /\ CountEvents({"Schema validation requested"}) >= Cardinality(ValidateReturns)
    /\ CountEvents({"Schema validation complete", "Schema validation error"})
          >= Cardinality(ValidateReturns)

\* ------------------------------------------------------------------ C9
\* C9: a step that is not a reset never decreases any of the four counters the
\* validator reports (so only a reset can bring a counter back to zero).
C9_CountersMonotonic ==
    [][validation_stats' = validation_stats =>
          \A k \in Keys : heap'[validation_stats'][k] >= heap[validation_stats][k]]_vars

\* ------------------------------------------------------------------ C10
\* C10: the record handed to detect_phi is the same after the call as before.
C10_PhiNonMutation ==
    \A e \in PhiReturns : e.after = e.data

C10_Witness ==
    \E e \in PhiReturns : "ssn" \in DOMAIN e.data /\ e.after = e.data

\* ------------------------------------------------------------------ C11
\* C11: detect_phi on a record with an ssn field reports a finding for that
\* field with category SSN and confidence 1.0, and under strict_mode a validate
\* call on such a record returns is_valid = false.
IsSsnFinding(x) == x.field = "ssn" /\ x.category = "SSN" /\ x.confidence = "1.0"

C11_SsnFinding ==
    /\ \A e \in PhiReturns :
          "ssn" \in DOMAIN e.data =>
              /\ e.result[1]
              /\ \E i \in DOMAIN e.result[2] : IsSsnFinding(e.result[2][i])
    /\ strict_mode =>
          \A e \in ValidateReturns : "ssn" \in DOMAIN e.data => ~is_valid(e)

\* ------------------------------------------------------------------ C12
\* C12: a validate call on a malformed record raises nothing and returns
\* is_valid = false with the errors listed.
C12_FailuresAreData ==
    \A e \in ValidateReturns :
        ~Conforms(e.data, schema) =>
            /\ e.raised = "none"
            /\ ~is_valid(e)
            /\ errors(e) # <<>>

\* ------------------------------------------------------------------ C13
\* C13: no validator exists whose schema declares no field, and no call raises
\* a configuration error.
C13_EmptySchemaRejected ==
    /\ DOMAIN schema # {}
    /\ \A e \in returned : e.raised # "ConfigurationError"

\* ------------------------------------------------------------------ C14
\* C14: with no reset and nothing in flight, the warnings counter is the sum,
\* over the validate calls made, of each call's number of non-fatal findings
\* (in non-strict mode every PHI finding is non-fatal).
RECURSIVE SumFindings(_)
SumFindings(S) ==
    IF S = {} THEN 0
    ELSE LET e == CHOOSE x \in S : TRUE
         IN  Cardinality(PhiFindings(e.data)) + SumFindings(S \ {e})

C14_WarningsCountFindings ==
    (AllIdle /\ ~strict_mode /\ Len(heap) = 1 /\ PhiReturns = {}) =>
        Stats.warnings = SumFindings(ValidateReturns)

C16_SinkFailureTolerated ==
    sink = "down" =>
        /\ \A e \in ValidateReturns : e.raised = "none" /\ Len(e.result) = 2
        /\ (AllIdle /\ ~raced /\ since = 1) =>
              /\ Stats.total_validations = 1
              /\ Stats.passed + Stats.failed = 1

C16_Witness ==
    /\ sink = "down" /\ log = <<>>
    /\ AllIdle /\ ~raced /\ since = 1
    /\ \E e \in ValidateReturns : e.raised = "none" /\ is_valid(e)
    /\ Stats.total_validations = 1

\* ------------------------------------------------------------------ C17
\* C17: every detect_phi call raises NotImplementedError.
C17_DetectPhiNotImplemented ==
    \A e \in PhiReturns : e.raised = "NotImplementedError"

\* ------------------------------------------------------------------ C18
\* C18: when an ingest call has ended, its audit events are ingestion_start
\* followed by exactly one terminal event: ingestion_complete if it returned,
\* ingestion_error if it raised.
EventsOfCall == SubSeq(ingester.audit, ingester.mark + 1, Len(ingester.audit))

C18_AuditEventOrder ==
    (ingester.pc = "idle" /\ ingester.calls > 0) =>
        EventsOfCall =
            <<"ingestion_start",
              IF ingester.outcome = "returned"
                 THEN "ingestion_complete" ELSE "ingestion_error">>

\* ------------------------------------------------------------------ C19
\* C19: after an ingest call that raised, the metadata equals the metadata before
\* the call, and rows_ingested, columns, ingestion_timestamp and file_size_bytes
\* are present only once a call has got past every step that can raise.
IngestKeys == {"rows_ingested", "columns", "ingestion_timestamp", "file_size_bytes"}

C19_FailedIngestKeepsMetadata ==
    /\ (ingester.pc = "idle" /\ ingester.outcome \notin {"none", "returned"}) =>
          ingester.metadata = ingester.before
    /\ (DOMAIN ingester.metadata \cap IngestKeys # {}) =>
          (ingester.successes > 0 \/ ingester.pc = "i235")

C19_Witness ==
    /\ ingester.pc = "idle"
    /\ ingester.outcome = "OSError"
    /\ ingester.successes > 0
    /\ ingester.metadata = ingester.before

\* ------------------------------------------------------------------ C20
\* C20: the mapping a caller got from get_validation_statistics() holds what the
\* caller saw or wrote, whatever validate and reset_statistics calls follow;
\* taking it changes no counter, and writing into it changes no counter.
C20_SnapshotIsolated ==
    /\ [](snapshot.ref # 0 => heap[snapshot.ref] = snapshot.value)
    /\ [][snapshot'.ref # snapshot.ref =>
             (validation_stats' = validation_stats /\ Stats' = Stats)]_vars
    /\ [][(snapshot'.mutated /\ ~snapshot.mutated) =>
             (validation_stats' = validation_stats /\ Stats' = Stats)]_vars

C20_Witness ==
    /\ snapshot.mutated
    /\ snapshot.value.passed = 1
    /\ validation_stats > snapshot.ref
    /\ Stats = ZeroStats
    /\ heap[snapshot.ref] = snapshot.value

====
